---- MODULE Spec2Model ----
(***************************************************************************)
(* Model of the caffeine tracker of baely/txn: the resolution ladder and   *)
(* grid iterator of internal/tracker/server/util.go, the level series of   *)
(* internal/tracker/server/server.go and the caffeine_event table of       *)
(* internal/tracker/database.                                              *)
(*                                                                         *)
(* Time.  A time.Duration is a count of ticks of 1/rangeResolution second  *)
(* (4ms), so that the division d / rangeResolution of rangeTimes is exact  *)
(* for every window whose ends are whole ticks.  A time.Time is a count of *)
(* ticks since a UTC midnight (every ladder entry divides 24h, so          *)
(* Truncate is aligned as it is from Go's zero time).                      *)
(*                                                                         *)
(* Levels.  A float64 level is a fixed-point integer in units of           *)
(* 1/LevelScale; math.Pow(0.5, x) is computed digit by digit on the binary *)
(* expansion of x and is exact when x is a whole number.                   *)
(***************************************************************************)
EXTENDS Integers, Sequences, FiniteSets, Bags, TLC

\* ------------------------------------------------------------------ bounds
MaxRows == 2

MaxEvents == 2

\* ------------------------------------------------------- time.Duration
rangeResolution == 250

Second == rangeResolution

Minute == 60 * Second

Hour == 60 * Minute

\* Go's integer division truncates toward zero.
GoDiv(a, b) == IF a >= 0 THEN a \div b ELSE -((-a) \div b)

\* ------------------------------------------------------------- util.go
snapTimes ==
  << 1 * Second, 5 * Second, 10 * Second, 30 * Second,
     1 * Minute, 5 * Minute, 10 * Minute, 30 * Minute,
     1 * Hour, 2 * Hour, 6 * Hour, 12 * Hour, 1 * Hour * 24 >>

\* the ladder as a set
Ladder == { snapTimes[i] : i \in 1..Len(snapTimes) }

RECURSIVE snapLoop(_, _)
\* a loop that skips the entries <= d: the spec's "largest entry <= d"
snapLoopLe(i, d) ==
  IF i > Len(snapTimes) THEN snapTimes[Len(snapTimes)]
  ELSE IF snapTimes[i] <= d THEN snapLoop(i + 1, d)
  ELSE IF i = 1 THEN snapTimes[i]
  ELSE snapTimes[i - 1]

\* a loop that hands the target back when it is below the ladder
snapLoopAdHoc(i, d) ==
  IF i > Len(snapTimes) THEN snapTimes[Len(snapTimes)]
  ELSE IF snapTimes[i] < d THEN snapLoop(i + 1, d)
  ELSE IF i = 1 THEN d
  ELSE snapTimes[i - 1]

\* a loop that snaps up: the first entry that is not below d
snapLoopUp(i, d) ==
  IF i > Len(snapTimes) THEN snapTimes[Len(snapTimes)]
  ELSE IF snapTimes[i] < d THEN snapLoop(i + 1, d)
  ELSE snapTimes[i]

\* for i, snap := range snapTimes, from index i on (1-based)
snapLoop(i, d) ==
  IF i > Len(snapTimes) THEN snapTimes[Len(snapTimes)]
  ELSE IF snapTimes[i] < d THEN snapLoop(i + 1, d)
  ELSE IF i = 1 THEN snapTimes[i]
  ELSE snapTimes[i - 1]

snapDownDuration(d) == snapLoop(1, d)

\* no truncation: the grid starts at start itself
TruncateNone(t, d) == t

\* t.Truncate(d): t rounded down to a multiple of d
Truncate(t, d) == IF d <= 0 THEN t ELSE t - (t % d)

\* the number of passes of the loop "for t.Before(end)" that starts at t0
\* and advances by d > 0
rangeSteps(t0, end, d) ==
  IF t0 < end THEN (end - t0 + d - 1) \div d ELSE 0

\* a loop "for !t.After(end)": it goes on while t is at or before end
rangeLoopThroughEnd(t0, end, d) ==
  [i \in 1..(rangeSteps(t0, end + 1, d) + 1) |-> t0 + (i - 1) * d]

\* the loop of the iterator and the closing yield(t): the points it yields
\* when it is consumed to the end
rangeLoop(t0, end, d) ==
  [i \in 1..(rangeSteps(t0, end, d) + 1) |-> t0 + (i - 1) * d]

\* an iterator that starts at start itself, not truncated
rangeTimesNoTruncate(start, end) ==
  rangeLoop(start, end, snapDownDuration(GoDiv(end - start, rangeResolution)))

\* an iterator without the closing yield(t)
rangeTimesNoLast(start, end) ==
  LET d == snapDownDuration(GoDiv(end - start, rangeResolution))
      t == Truncate(start, d)
  IN  [i \in 1..rangeSteps(t, end, d) |-> t + (i - 1) * d]

rangeTimes(start, end) ==
  LET d == snapDownDuration(GoDiv(end - start, rangeResolution))
      t == Truncate(start, d)
  IN  rangeLoop(t, end, d)

\* ----------------------------------------------------------- float64
\* one unit of level is 1/LevelScale
LevelScale == 2 ^ 15

RECURSIVE Pow2(_)
Pow2(n) == IF n = 0 THEN 1 ELSE 2 * Pow2(n - 1)

\* powRoots[i] = LevelScale * 0.5^(1/2^i), rounded
powRoots == << 23170, 27554, 30048, 31379, 32066, 32415, 32591, 32679, 32724, 32746 >>

RECURSIVE powDigits(_, _, _, _)
\* LevelScale * 0.5^(x/den) for 0 <= x < den, from binary digit i of x/den on
powDigits(i, x, den, p) ==
  IF i > Len(powRoots) THEN p
  ELSE IF 2 * x >= den
       THEN powDigits(i + 1, 2 * x - den, den, (p * powRoots[i]) \div LevelScale)
       ELSE powDigits(i + 1, 2 * x, den, p)

\* float64(a) * math.Pow(0.5, num/den), den > 0
MulPow05(a, num, den) ==
  LET q == num \div den
      f == powDigits(1, num % den, den, LevelScale)
  IN  IF q >= 0 THEN GoDiv(a * f, Pow2(q)) ELSE a * f * Pow2(-q)

\* ------------------------------------------------------------ models/db.go
\* a row of caffeine_event: seconds since the epoch and the amount column
\* (description and cost are carried along and never read by the levels)
CaffeineRow(ts, amount) == [Timestamp |-> ts, Amount |-> amount]

\* time.Unix(sec, 0)
UnixTime(sec) == sec * Second

\* t.Unix(): whole seconds, rounded down
Unix(t) == t \div Second

ToEvent(row) == [Timestamp |-> UnixTime(row.Timestamp), Amount |-> row.Amount]

\* ------------------------------------------------------------ server.go
halfLife == 4

\* a clamp that also drops the event at zero elapsed time
calculateCaffeineLevelLe(amount, hl, elapsed) ==
  IF elapsed <= 0 THEN 0 ELSE MulPow05(amount, elapsed, hl * Hour)

\* no clamp: the formula applied to a negative elapsed time
calculateCaffeineLevelNoClamp(amount, hl, elapsed) ==
  MulPow05(amount, elapsed, hl * Hour)

\* a base of 2 in place of 0.5: the contribution doubles every half-life
calculateCaffeineLevelGrow(amount, hl, elapsed) ==
  IF elapsed < 0 THEN 0 ELSE MulPow05(amount, 0 - elapsed, hl * Hour)

\* elapsed.Hours() < 0 exactly when elapsed < 0
calculateCaffeineLevel(amount, hl, elapsed) ==
  IF elapsed < 0 THEN 0 ELSE MulPow05(amount, elapsed, hl * Hour)

RECURSIVE sumLoop(_, _, _, _, _)
\* totalCaffeine = ... in place of totalCaffeine += ...
sumLoopAssign(hl, t, events, i, totalCaffeine) ==
  IF i > Len(events) THEN totalCaffeine
  ELSE sumLoop(hl, t, events, i + 1,
               calculateCaffeineLevel(events[i].Amount, hl, t - events[i].Timestamp))

\* for _, e := range events, from index i on
sumLoop(hl, t, events, i, totalCaffeine) ==
  IF i > Len(events) THEN totalCaffeine
  ELSE sumLoop(hl, t, events, i + 1,
               totalCaffeine
                 + calculateCaffeineLevel(events[i].Amount, hl, t - events[i].Timestamp))

calculateSumCaffeineLevel(hl, t, events) == sumLoop(hl, t, events, 1, 0)

\* --------------------------------------------------- database (part_006)
\* the rows r of the table, each as often as it is stored, in timestamp order
RECURSIVE rowsAscending(_)
rowsAscending(table) ==
  IF BagToSet(table) = {} THEN << >>
  ELSE LET first == CHOOSE r \in BagToSet(table) :
                      \A o \in BagToSet(table) :
                        \/ r.Timestamp < o.Timestamp
                        \/ r.Timestamp = o.Timestamp /\ r.Amount <= o.Amount
       IN  << first >> \o rowsAscending(table (-) SetToBag({first}))

\* WHERE timestamp >= $1 AND timestamp <= $2
selectedInclusive(table, startSeconds, endSeconds) ==
  LET keep == { r \in BagToSet(table) :
                  r.Timestamp >= startSeconds /\ r.Timestamp <= endSeconds }
  IN  [r \in keep |-> table[r]]

\* WHERE timestamp > $1 AND timestamp < $2
selected(table, startSeconds, endSeconds) ==
  LET keep == { r \in BagToSet(table) :
                  r.Timestamp > startSeconds /\ r.Timestamp < endSeconds }
  IN  [r \in keep |-> table[r]]

\* the rows Client.GetEvents queries, in the order of the query
queriedRows(table, start, end) ==
  rowsAscending(selected(table, Unix(start), Unix(end)))

\* Client.GetEvents: the queried rows, converted; scanned counts the rows
\* read before Query or Scan failed (all of them when nothing failed)
ClientGetEvents(table, start, end, scanned) ==
  LET rows == queriedRows(table, start, end)
  IN  [i \in 1..scanned |-> ToEvent(rows[i])]

\* Client.AddEvent
ClientAddEvent(table, event) ==
  table (+) SetToBag({ CaffeineRow(Unix(event.Timestamp), event.Amount) })

\* ------------------------------------------------ server.go, the series
LevelEvent(t, level) == [Timestamp |-> t, Level |-> level]

\* int(a.Timestamp.Time.Sub(b.Timestamp.Time).Seconds())
cmpTimestamp(a, b) == GoDiv(a.Timestamp - b.Timestamp, Second)

RECURSIVE insertAt(_, _, _, _)
\* the number of leading elements of the sorted s that x goes after, found
\* by bisection between lo and hi
insertAt(s, x, lo, hi) ==
  IF lo >= hi THEN lo
  ELSE LET mid == (lo + hi + 1) \div 2
       IN  IF cmpTimestamp(s[mid], x) <= 0 THEN insertAt(s, x, mid, hi)
           ELSE insertAt(s, x, lo, mid - 1)

insertSorted(s, x) ==
  LET k == insertAt(s, x, 0, Len(s))
  IN  SubSeq(s, 1, k) \o << x >> \o SubSeq(s, k + 1, Len(s))

RECURSIVE sortRange(_, _, _, _)
\* the elements s[lo..hi] inserted, in order, into the sorted acc
sortRange(s, lo, hi, acc) ==
  IF lo > hi THEN acc
  ELSE IF lo = hi THEN insertSorted(acc, s[lo])
  ELSE LET mid  == (lo + hi) \div 2
           left == sortRange(s, lo, mid, acc)
       IN  \* the left half is in place before the right half is inserted
           IF Len(left) = Len(acc) + (mid - lo + 1)
           THEN sortRange(s, mid + 1, hi, left)
           ELSE left

\* a sort that leaves the slice as it is
SortFuncNone(s) == s

\* a sort followed by slices.CompactFunc on the timestamp: of samples with
\* equal timestamps only the first stays
SortFuncCompact(s) ==
  LET sorted == sortRange(s, 1, Len(s), << >>)
      keep   == { i \in 1..Len(sorted) :
                    i = 1 \/ sorted[i].Timestamp # sorted[i - 1].Timestamp }
  IN  [k \in 1..Cardinality(keep) |->
         sorted[CHOOSE i \in keep : Cardinality({ j \in keep : j <= i }) = k]]

\* slices.SortFunc with cmpTimestamp: the slice in comparator order.  Equal
\* timestamps carry equal levels, so the order of ties does not show.
SortFunc(s) == sortRange(s, 1, Len(s), << >>)

RECURSIVE knotLoop(_, _, _, _)
\* one sample per event, at its timestamp, and none for the minute before
knotLoopOneKnot(hl, events, i, levels) ==
  levels \o [k \in 1..(Len(events) - i + 1) |->
              LevelEvent(events[k + i - 1].Timestamp,
                         calculateSumCaffeineLevel(hl, events[k + i - 1].Timestamp,
                                                   events))]

\* knots that carry the event's own amount, not the level of all events
knotLoopOwnLevel(hl, events, i, levels) ==
  levels \o [k \in 1..(2 * (Len(events) - i + 1)) |->
              LET e == events[i + (k - 1) \div 2]
              IN  IF k % 2 = 1
                  THEN LevelEvent(e.Timestamp,
                                  calculateCaffeineLevel(e.Amount, hl, 0))
                  ELSE LevelEvent(e.Timestamp - 1 * Minute, 0)]

\* knots that carry the level of the events up to and including the event
\* itself, in slice order, in place of the level of all events
knotLoopPriorLevel(hl, events, i, levels) ==
  levels \o [k \in 1..(2 * (Len(events) - i + 1)) |->
              LET n == i + (k - 1) \div 2
                  t == IF k % 2 = 1 THEN events[n].Timestamp
                       ELSE events[n].Timestamp - 1 * Minute
              IN  LevelEvent(t, calculateSumCaffeineLevel(hl, t, SubSeq(events, 1, n)))]

\* both samples of an event carry the level at the event's timestamp
knotLoopFlatBefore(hl, events, i, levels) ==
  levels \o [k \in 1..(2 * (Len(events) - i + 1)) |->
              LET e == events[i + (k - 1) \div 2]
              IN  LevelEvent(IF k % 2 = 1 THEN e.Timestamp ELSE e.Timestamp - 1 * Minute,
                             calculateSumCaffeineLevel(hl, e.Timestamp, events))]

\* for _, e := range caffeineEvents, from index i on
knotLoop(hl, events, i, levels) ==
  IF i > Len(events) THEN levels
  ELSE LET t  == events[i].Timestamp
           t1 == events[i].Timestamp - 1 * Minute
       IN  knotLoop(hl, events, i + 1,
             Append(Append(levels,
               LevelEvent(t, calculateSumCaffeineLevel(hl, t, events))),
               LevelEvent(t1, calculateSumCaffeineLevel(hl, t1, events))))

\* a series that is left empty when no event was fetched
calculateCaffeineLevelsNoEvents(start, end, caffeineEvents) ==
  IF caffeineEvents = << >> THEN << >>
  ELSE SortFunc(knotLoop(halfLife, caffeineEvents, 1,
         [i \in 1..Len(rangeTimes(start, end)) |->
            LevelEvent(rangeTimes(start, end)[i],
                       calculateSumCaffeineLevel(halfLife, rangeTimes(start, end)[i],
                                                 caffeineEvents))]))

\* the body of calculateCaffeineLevels once the events are fetched
calculateCaffeineLevels(start, end, caffeineEvents) ==
  LET grid == rangeTimes(start, end)
      gridLevels ==
        [i \in 1..Len(grid) |->
           LevelEvent(grid[i],
                      calculateSumCaffeineLevel(halfLife, grid[i], caffeineEvents))]
  IN  SortFunc(knotLoop(halfLife, caffeineEvents, 1, SortFunc(gridLevels)))

\* the lookback of calculateCaffeineLevels
eventStart(start) == start - 72 * Hour

\* ----------------------------------------------------------- variables
VARIABLES
  snapIn,     \* the argument of a call of snapDownDuration
  snapOut,    \* its result
  snapPc,     \* "ready" before the call, "done" after it
  evalT,      \* the time argument of a call of calculateSumCaffeineLevel
  evalEvents, \* its events argument
  evalLevel,  \* its result
  evalPc,     \* "ready" before the call, "done" after it
  gridStart,  \* the arguments of a call of rangeTimes
  gridEnd,
  grid,       \* the points its iterator yielded
  gridPc,     \* "ready" before the call, "done" after it; in between,
              \* when the iterator runs step by step, "loop" and "last"
  iterT,      \* the iterator's t
  iterD,      \* the iterator's d
  iterStopped, \* TRUE once yield returned false
  db,         \* the table caffeine_event, a bag of rows
  req,        \* the last request to /api/levels: its parsed query, and
              \* whether the database failed while the events were read
  caffeineEvents, \* the events that request fetched
  resp,       \* the last HTTP response
  calls,      \* calls of calculateCaffeineLevels that run side by side:
              \* for each its position, arguments, events and levels slices
  ladder,     \* the package variable snapTimes
  build,      \* which webhook and presence code runs: "service"
              \* (WebhookService, PresenceService) or "legacy" (webhook,
              \* ibbitot)
  slackWebhookURL, \* the configured Slack webhook, "" when there is none
  today,      \* the day the clock is in, in Melbourne
  tick,       \* TRUE when the daily refresher is due to refresh
  requests,   \* for every webhook request its position, the transaction
              \* its event names and how the lookups went
  rawChan,    \* the buffered channel of validated bodies
  consumer,   \* legacy: where the listen goroutine is in consume
  goroutines, \* service: handler goroutines spawned and not yet run
  delivered,  \* how many times HandleEvent was invoked, per request and
              \* handler
  cachedTransaction,
  indexPage,
  refreshing, \* legacy: each goroutine's position in refreshPage
  notifying,  \* service: notifySlack goroutines spawned and not yet run
  slackPosts, \* how many notifications were posted to Slack
  lastRefresh \* of the refresh that completed last: whether it changed
              \* the stored page and whether it sent a notification

snapVars == << snapIn, snapOut, snapPc >>

evalVars == << evalT, evalEvents, evalLevel, evalPc >>

gridVars == << gridStart, gridEnd, grid, gridPc, iterT, iterD, iterStopped >>

callVars == << calls, ladder >>

evVars ==
  << build, slackWebhookURL, today, tick, requests, rawChan, consumer,
     goroutines, delivered, cachedTransaction, indexPage, refreshing,
     notifying, slackPosts, lastRefresh >>

srvVars == << db, req, caffeineEvents, resp, callVars, evVars >>

vars == << snapVars, evalVars, gridVars, srvVars >>

SnapIdle == snapIn = 0 /\ snapOut = 0 /\ snapPc = "idle"

NoReq == [ok |-> FALSE, start |-> 0, end |-> 0, failed |-> FALSE]

NoResp == [path |-> "", code |-> 0, body |-> << >>]

CallsIdle == calls = << >> /\ ladder = snapTimes

NoTransaction ==
  [Id |-> "", CreatedAt |-> 0, ValueInBaseUnits |-> 0, Foreign |-> FALSE,
   Category |-> "", Description |-> ""]

NoRefresh == [changed |-> FALSE, notified |-> FALSE]

ConsumerIdle == [pc |-> "idle", r |-> 0, h |-> 0]

EvIdle ==
  /\ build = "" /\ slackWebhookURL = "" /\ today = 0 /\ tick = FALSE
  /\ requests = << >> /\ rawChan = << >> /\ consumer = ConsumerIdle
  /\ goroutines = {} /\ delivered = << >>
  /\ cachedTransaction = NoTransaction /\ indexPage = << >>
  /\ refreshing = << >> /\ notifying = 0 /\ slackPosts = 0
  /\ lastRefresh = NoRefresh

SrvIdle ==
  /\ db = EmptyBag /\ req = NoReq /\ caffeineEvents = << >> /\ resp = NoResp
  /\ CallsIdle
  /\ EvIdle

IterIdle == iterT = 0 /\ iterD = 0 /\ iterStopped = FALSE

GridIdle ==
  gridStart = 0 /\ gridEnd = 0 /\ grid = << >> /\ gridPc = "idle" /\ IterIdle

EvalIdle == evalT = 0 /\ evalEvents = << >> /\ evalLevel = 0 /\ evalPc = "idle"

\* the model's day starts 72h after its time zero, so the lookback of every
\* window stays at or after zero
Day0 == 72 * Hour

Day0Seconds == Unix(Day0)

\* -------------------------------------------- snapDownDuration, applied
\* target spacings around every ladder entry, below and above the ladder
SnapInputs ==
  UNION { { s - 1, s, s + 1, s + (s \div 2) } : s \in Ladder }
    \cup { -Hour, -Second, -1, 0, 1, 2, 2 * 24 * Hour, 60 * 24 * Hour,
           GoDiv(24 * Hour, rangeResolution) }

InitSnap ==
  /\ snapIn \in SnapInputs
  /\ snapOut = 0
  /\ snapPc = "ready"
  /\ EvalIdle
  /\ GridIdle
  /\ SrvIdle

ApplySnap ==
  /\ snapPc = "ready"
  /\ snapOut' = snapDownDuration(snapIn)
  /\ snapPc' = "done"
  /\ UNCHANGED << snapIn, evalVars, gridVars, srvVars >>

NextSnap == ApplySnap

SpecSnap == InitSnap /\ [][NextSnap]_vars

\* ----------------------------------- calculateSumCaffeineLevel, applied
\* 09:00 and 13:00 of the model's day
EvalEventTimes == { 9 * Hour, 13 * Hour }

EvalAmounts == { -80, 0, 5, 80, 160 }

EvalEventSet ==
  { [Timestamp |-> ts, Amount |-> a] : ts \in EvalEventTimes, a \in EvalAmounts }

\* sequences of at most n events
EvalSeqs(n) == UNION { [1..k -> EvalEventSet] : k \in 0..n }

EvalTimes ==
  { 9 * Hour - Hour, 9 * Hour - Second, 9 * Hour - 1, 9 * Hour,
    9 * Hour + Minute, 9 * Hour + 90 * Minute,
    13 * Hour - Minute, 13 * Hour, 17 * Hour, 21 * Hour }

InitLevel ==
  /\ evalT \in EvalTimes
  /\ evalEvents \in EvalSeqs(MaxEvents)
  /\ evalLevel = 0
  /\ evalPc = "ready"
  /\ SnapIdle
  /\ GridIdle
  /\ SrvIdle

ApplyLevel ==
  /\ evalPc = "ready"
  /\ evalLevel' = calculateSumCaffeineLevel(halfLife, evalT, evalEvents)
  /\ evalPc' = "done"
  /\ UNCHANGED << evalT, evalEvents, snapVars, gridVars, srvVars >>

NextLevel == ApplyLevel

SpecLevel == InitLevel /\ [][NextLevel]_vars

\* ----------------------------------------------------- rangeTimes, applied
\* window starts: on and off the boundaries of the ladder entries
GridStarts ==
  { Day0, Day0 + 2 * Second, Day0 + 10 * Second + 125, Day0 + 7 * Minute,
    Day0 + 1 * Hour + 17 * Minute + 3 * Second, Day0 + 8 * Hour,
    Day0 + 4 * Minute + 59 * Second + (Second - 1) }

\* window lengths, from inverted and empty windows to 90 days, with those
\* at which the target spacing reaches a ladder entry and just leaves it
GridSpans ==
  { -1 * Hour, -1, 0, 1, 2 * Second + 125, 3 * Second,
    250 * Second - 1, 250 * Second,
    1250 * Second, 1250 * Second + (rangeResolution - 1),
    1250 * Second + rangeResolution, 1500 * Second, 1 * Hour,
    1250 * Minute + (rangeResolution - 1), 1250 * Minute + rangeResolution,
    6 * Hour, 24 * Hour,
    7 * 24 * Hour, 30 * 24 * Hour, 60 * 24 * Hour, 90 * 24 * Hour }

InitGrid ==
  /\ gridStart \in GridStarts
  /\ gridEnd \in { gridStart + span : span \in GridSpans }
  /\ grid = << >>
  /\ gridPc = "ready"
  /\ IterIdle
  /\ SnapIdle
  /\ EvalIdle
  /\ SrvIdle

ApplyGrid ==
  /\ gridPc = "ready"
  /\ grid' = rangeTimes(gridStart, gridEnd)
  /\ gridPc' = "done"
  /\ UNCHANGED << gridStart, gridEnd, iterT, iterD, iterStopped,
                  snapVars, evalVars, srvVars >>

NextGrid == ApplyGrid

SpecGrid == InitGrid /\ [][NextGrid]_vars

\* ------------------------------------- rangeTimes, consumed step by step
IterStarts ==
  { Day0, Day0 + 10 * Second + 125, Day0 + 1 * Hour + 17 * Minute + 3 * Second }

\* window lengths: inverted, empty, a few seconds, and one of step 5s
IterSpans ==
  { -1 * Hour, -1 * Second, -1, 0, 1, 2 * Second + 125, 3 * Second, 1500 * Second }

InitIter ==
  /\ gridStart \in IterStarts
  /\ gridEnd \in { gridStart + span : span \in IterSpans }
  /\ grid = << >>
  /\ gridPc = "ready"
  /\ IterIdle
  /\ SnapIdle
  /\ EvalIdle
  /\ SrvIdle

\* the call rangeTimes(start, end): d and t are set, the iterator is returned
\* and the consumer's range statement enters it
IterCall ==
  /\ gridPc = "ready"
  /\ iterD' = snapDownDuration(GoDiv(gridEnd - gridStart, rangeResolution))
  /\ iterT' = Truncate(gridStart, iterD')
  /\ gridPc' = "loop"
  /\ UNCHANGED << gridStart, gridEnd, grid, iterStopped, snapVars, evalVars, srvVars >>

\* a pass of the loop in which yield(t) returns true: t = t.Add(d)
IterYield ==
  /\ gridPc = "loop"
  /\ iterT < gridEnd
  /\ grid' = Append(grid, iterT)
  /\ iterT' = iterT + iterD
  /\ UNCHANGED << gridStart, gridEnd, gridPc, iterD, iterStopped,
                  snapVars, evalVars, srvVars >>

\* yield(t) returns false and the iterator goes on to the closing yield,
\* as with break in place of return
IterStopBreak ==
  /\ gridPc = "loop"
  /\ iterT < gridEnd
  /\ grid' = Append(grid, iterT)
  /\ iterStopped' = TRUE
  /\ gridPc' = "last"
  /\ UNCHANGED << gridStart, gridEnd, iterT, iterD, snapVars, evalVars, srvVars >>

\* a pass of the loop in which yield(t) returns false: return
IterStop ==
  /\ gridPc = "loop"
  /\ iterT < gridEnd
  /\ grid' = Append(grid, iterT)
  /\ iterStopped' = TRUE
  /\ gridPc' = "done"
  /\ UNCHANGED << gridStart, gridEnd, iterT, iterD, snapVars, evalVars, srvVars >>

\* t.Before(end) is false: the loop is left
IterExit ==
  /\ gridPc = "loop"
  /\ ~(iterT < gridEnd)
  /\ gridPc' = "last"
  /\ UNCHANGED << gridStart, gridEnd, grid, iterT, iterD, iterStopped,
                  snapVars, evalVars, srvVars >>

\* the closing yield(t), whose result is not looked at
IterLast ==
  /\ gridPc = "last"
  /\ grid' = Append(grid, iterT)
  /\ gridPc' = "done"
  /\ UNCHANGED << gridStart, gridEnd, iterT, iterD, iterStopped,
                  snapVars, evalVars, srvVars >>

NextIter ==
  \/ IterCall
  \/ IterYield
  \/ IterStop
  \/ IterExit
  \/ IterLast

\* the iterator and its consumer are sequential code that keeps running
SpecIter == InitIter /\ [][NextIter]_vars /\ WF_vars(NextIter)

\* ------------------------------------------------------ the tracker server
\* the instants time.Now() returns to GetPredefinedEvent
NowTimes == { Day0 + 11 * Second + 125, Day0 + 13 * Second }

\* the predefined events: type -> amount
predefinedTypes == (1 :> 160) @@ (2 :> 80)

\* rows other writers of the table left in it
ForeignRows ==
  { CaffeineRow(Day0Seconds + 11, -80), CaffeineRow(Day0Seconds - 100, 160),
    CaffeineRow(Unix(eventStart(Day0 + 10 * Second)), 160) }

RowUniverse ==
  ForeignRows \cup
    { CaffeineRow(Unix(now), predefinedTypes[ty]) :
        now \in NowTimes, ty \in DOMAIN predefinedTypes }

BagSize(b) == BagCardinality(b)

RECURSIVE BagsUpTo(_)
\* the bags of at most n rows of RowUniverse
BagsUpTo(n) ==
  IF n = 0 THEN { EmptyBag }
  ELSE LET smaller == BagsUpTo(n - 1)
       IN  smaller \cup
             { b (+) SetToBag({r}) : b \in smaller, r \in RowUniverse }

\* a query parameter: an RFC 3339 time, or text time.Parse rejects
TimeParam(t) == [ok |-> TRUE, t |-> t]

BadParam == [ok |-> FALSE, t |-> 0]

\* the (start, end) pairs requested
RequestWindows ==
  { << TimeParam(Day0 + 10 * Second), TimeParam(Day0 + 13 * Second) >>,
    << TimeParam(Day0 + 10 * Second + 125), TimeParam(Day0 + 12 * Second + 125) >>,
    << TimeParam(Day0 + 12 * Second), TimeParam(Day0 + 14 * Second) >>,
    << TimeParam(Day0 + 11 * Second + 125), TimeParam(Day0 + 13 * Second + 125) >>,
    << TimeParam(Day0 + 10 * Second), TimeParam(Day0 + 10 * Second) >>,
    << TimeParam(Day0 + 13 * Second), TimeParam(Day0 + 10 * Second) >>,
    << BadParam, TimeParam(Day0 + 13 * Second) >>,
    << TimeParam(Day0 + 10 * Second), BadParam >> }

\* the server starts on the table as it finds it: NewClient opens an existing
\* database, and the rows are whatever its writers stored
Init ==
  /\ db \in BagsUpTo(MaxRows)
  /\ req = NoReq
  /\ caffeineEvents = << >>
  /\ resp = NoResp
  /\ CallsIdle
  /\ EvIdle
  /\ SnapIdle
  /\ EvalIdle
  /\ GridIdle

\* GET /api/levels with unparsable start or end
GetLevelsBadRequest(startParam, endParam) ==
  /\ ~startParam.ok \/ ~endParam.ok
  /\ resp' = [path |-> "/api/levels", code |-> 400,
              body |-> IF ~startParam.ok THEN "invalid start time"
                       ELSE "invalid end time"]
  /\ req' = NoReq
  /\ caffeineEvents' = << >>
  /\ UNCHANGED << db, callVars, evVars, snapVars, evalVars, gridVars >>

\* GET /api/levels: calculateCaffeineLevels(start, end), encoded
GetLevels(startParam, endParam, scanned) ==
  /\ startParam.ok /\ endParam.ok
  /\ scanned <= Len(queriedRows(db, eventStart(startParam.t), endParam.t))
  /\ LET start  == startParam.t
         end    == endParam.t
         events == ClientGetEvents(db, eventStart(start), end, scanned)
     IN  /\ req' = [ok |-> TRUE, start |-> start, end |-> end,
                    failed |-> scanned < Len(queriedRows(db, eventStart(start), end))]
         /\ caffeineEvents' = events
         /\ resp' = [path |-> "/api/levels", code |-> 200,
                     body |-> calculateCaffeineLevels(start, end, events)]
  /\ UNCHANGED << db, callVars, evVars, snapVars, evalVars, gridVars >>

\* GET /api/predefined-event?type=ty
GetPredefinedEvent(ty, now) ==
  /\ ty \in DOMAIN predefinedTypes => BagSize(db) < MaxRows
  /\ db' = IF ty \in DOMAIN predefinedTypes
           THEN ClientAddEvent(db, [Timestamp |-> now, Amount |-> predefinedTypes[ty]])
           ELSE db
  /\ resp' = [path |-> "/api/predefined-event", code |-> 200, body |-> "ok"]
  /\ UNCHANGED << req, caffeineEvents, callVars, evVars, snapVars, evalVars, gridVars >>

Next ==
  \/ \E w \in RequestWindows : GetLevelsBadRequest(w[1], w[2])
  \/ \E w \in RequestWindows, scanned \in 0..MaxRows : GetLevels(w[1], w[2], scanned)
  \/ \E ty \in 0..2, now \in NowTimes : GetPredefinedEvent(ty, now)

Spec == Init /\ [][Next]_vars

\* ------------------------ calculateCaffeineLevels, calls side by side
\* snapDownDuration over the ladder as the package variable holds it
snapDownOver(lad, d) ==
  LET notBelow == { i \in 1..Len(lad) : ~(lad[i] < d) }
      first    == CHOOSE i \in notBelow : \A j \in notBelow : i <= j
  IN  IF notBelow = {} THEN lad[Len(lad)]
      ELSE IF first = 1 THEN lad[1]
      ELSE lad[first - 1]

\* rangeTimes, consumed to the end, over that ladder
rangeTimesOver(lad, start, end) ==
  LET d == snapDownOver(lad, GoDiv(end - start, rangeResolution))
  IN  rangeLoop(Truncate(start, d), end, d)

Reverse(s) == [i \in 1..Len(s) |-> s[Len(s) + 1 - i]]

\* slices.SortFunc is not stable: samples the comparator calls equal come
\* out in some order; the two extremes are the order they had and its reverse
SortFuncTies(s, reversed) == IF reversed THEN SortFunc(Reverse(s)) ELSE SortFunc(s)

\* the handlers that run at once
CallIds == { 1, 2 }

CallWindows ==
  { << Day0 + 10 * Second, Day0 + 13 * Second >>,
    << Day0 + 10 * Second + 125, Day0 + 12 * Second + 125 >> }

NewCall(start, end) ==
  [pc |-> "ready", start |-> start, end |-> end, events |-> << >>, levels |-> << >>]

InitCalls ==
  /\ db \in BagsUpTo(MaxRows)
  /\ calls \in [CallIds -> { NewCall(w[1], w[2]) : w \in CallWindows }]
  /\ ladder = snapTimes
  /\ req = NoReq
  /\ caffeineEvents = << >>
  /\ resp = NoResp
  /\ EvIdle
  /\ SnapIdle
  /\ EvalIdle
  /\ GridIdle

\* eventStart := start.Add(-72h); caffeineEvents := s.db.GetEvents(...)
CallFetch(c, scanned) ==
  /\ calls[c].pc = "ready"
  /\ scanned <= Len(queriedRows(db, eventStart(calls[c].start), calls[c].end))
  /\ calls' = [calls EXCEPT
                 ![c].events = ClientGetEvents(db, eventStart(calls[c].start),
                                               calls[c].end, scanned),
                 ![c].pc = "grid"]
  /\ UNCHANGED << db, ladder, req, caffeineEvents, resp, evVars, snapVars, evalVars,
                  gridVars >>

\* the loop over rangeTimes(start, end) and the first sort
CallGrid(c, reversed) ==
  /\ calls[c].pc = "grid"
  /\ LET grid0 == rangeTimesOver(ladder, calls[c].start, calls[c].end)
     IN  calls' = [calls EXCEPT
           ![c].levels =
              SortFuncTies([i \in 1..Len(grid0) |->
                              LevelEvent(grid0[i],
                                calculateSumCaffeineLevel(halfLife, grid0[i],
                                                          calls[c].events))],
                           reversed),
           ![c].pc = "knots"]
  /\ UNCHANGED << db, ladder, req, caffeineEvents, resp, evVars, snapVars, evalVars,
                  gridVars >>

\* the loop over caffeineEvents, the second sort, and the return
CallKnots(c, reversed) ==
  /\ calls[c].pc = "knots"
  /\ calls' = [calls EXCEPT
       ![c].levels = SortFuncTies(knotLoop(halfLife, calls[c].events, 1,
                                           calls[c].levels),
                                  reversed),
       ![c].pc = "done"]
  /\ UNCHANGED << db, ladder, req, caffeineEvents, resp, evVars, snapVars, evalVars,
                  gridVars >>

\* a handler of /api/predefined-event stores an event meanwhile
CallAddEvent(ty, now) ==
  /\ BagSize(db) < MaxRows
  /\ db' = ClientAddEvent(db, [Timestamp |-> now, Amount |-> predefinedTypes[ty]])
  /\ UNCHANGED << calls, ladder, req, caffeineEvents, resp, evVars, snapVars,
                  evalVars, gridVars >>

NextCalls ==
  \/ \E c \in CallIds, scanned \in 0..MaxRows : CallFetch(c, scanned)
  \/ \E c \in CallIds, reversed \in BOOLEAN : CallGrid(c, reversed)
  \/ \E c \in CallIds, reversed \in BOOLEAN : CallKnots(c, reversed)
  \/ \E ty \in DOMAIN predefinedTypes, now \in NowTimes : CallAddEvent(ty, now)

SpecCalls == InitCalls /\ [][NextCalls]_vars

\* ------------------------------------------------------------- claims
\* C1 (as stated): the selected resolution is the largest ladder entry that
\* is less than or equal to the target spacing d, so a d equal to a ladder
\* entry selects that entry.
C1_LargestAtMost ==
  (snapPc = "done" /\ snapIn >= snapTimes[1]) =>
    /\ snapOut \in Ladder
    /\ snapOut <= snapIn
    /\ \A x \in Ladder : x <= snapIn => x <= snapOut

\* C1 (amended): for d above 1s the selected resolution is the largest ladder
\* entry strictly below d, so a d equal to a ladder entry selects the entry
\* before it; d = 1s selects 1s; the 24h span (d = 345.6s) selects 5 minutes.
C1_LargestBelow ==
  snapPc = "done" =>
    /\ snapIn > snapTimes[1] =>
         /\ snapOut \in Ladder
         /\ snapOut < snapIn
         /\ \A x \in Ladder : x < snapIn => x <= snapOut
    /\ snapIn = snapTimes[1] => snapOut = snapTimes[1]
    /\ snapIn = GoDiv(24 * Hour, rangeResolution) => snapOut = 5 * Minute

C1_Witness ==
  snapPc = "done" /\ snapIn = 5 * Minute /\ snapOut = 1 * Minute

\* C2: whatever the target (zero, negative, below 1s, above 24h) the result
\* is a ladder member: 1s when the target is below 1s, 24h when it is above
\* 24h, and never zero or negative.
C2_AlwaysLadder ==
  snapPc = "done" =>
    /\ snapOut \in Ladder
    /\ snapOut > 0
    /\ snapIn < 1 * Second => snapOut = 1 * Second
    /\ snapIn > 24 * Hour => snapOut = 24 * Hour

C2_Witness ==
  snapPc = "done" /\ snapIn < 0 /\ snapOut = 1 * Second

\* C6: a single event strictly after the evaluation time contributes exactly
\* 0 to the level.
C6_FutureClamp ==
  (evalPc = "done" /\ Len(evalEvents) = 1 /\ evalT < evalEvents[1].Timestamp) =>
    evalLevel = 0

C6_Witness ==
  /\ evalPc = "done"
  /\ evalEvents = << [Timestamp |-> 9 * Hour, Amount |-> 160] >>
  /\ evalT = 9 * Hour - Second
  /\ evalLevel = 0

\* C7: for a single event (t0, A) the level at t0 + k * 4h is A / 2^k for
\* k = 0, 1, 2.
C7_HalfLife ==
  (evalPc = "done" /\ Len(evalEvents) = 1) =>
    \A k \in 0..2 :
      evalT = evalEvents[1].Timestamp + k * (4 * Hour) =>
        evalLevel * Pow2(k) = evalEvents[1].Amount * LevelScale

C7_Witness ==
  /\ evalPc = "done"
  /\ evalEvents = << [Timestamp |-> 9 * Hour, Amount |-> 160] >>
  /\ evalT = 17 * Hour
  /\ evalLevel = 40 * LevelScale

\* C8: the level of two events is the sum of the levels of each event alone,
\* whatever their order in the slice; (09:00,160) and (13:00,80) give 160 at
\* 13:00.
C8_Superposition ==
  (evalPc = "done" /\ Len(evalEvents) = 2) =>
    /\ evalLevel = calculateSumCaffeineLevel(halfLife, evalT, << evalEvents[1] >>)
                     + calculateSumCaffeineLevel(halfLife, evalT, << evalEvents[2] >>)
    /\ evalLevel = calculateSumCaffeineLevel(halfLife, evalT,
                                             << evalEvents[2], evalEvents[1] >>)
    /\ ( /\ evalEvents = << [Timestamp |-> 9 * Hour, Amount |-> 160],
                            [Timestamp |-> 13 * Hour, Amount |-> 80] >>
         /\ evalT = 13 * Hour ) => evalLevel = 160 * LevelScale

C8_Witness ==
  /\ evalPc = "done"
  /\ evalEvents = << [Timestamp |-> 9 * Hour, Amount |-> 160],
                     [Timestamp |-> 13 * Hour, Amount |-> 80] >>
  /\ evalT = 13 * Hour
  /\ evalLevel = 160 * LevelScale

\* a series was returned for the last request to /api/levels
SeriesReturned == resp.path = "/api/levels" /\ resp.code = 200

\* C3: when end <= start the series is refused with an error and no sample
\* is produced.
C3_InvalidRange ==
  (resp.path = "/api/levels" /\ req.ok /\ req.end <= req.start) =>
    resp.code # 200

\* C4: the returned series is non-decreasing by timestamp.
C4_Sorted ==
  SeriesReturned =>
    \A i \in 1..(Len(resp.body) - 1) :
      resp.body[i].Timestamp <= resp.body[i + 1].Timestamp

C4_Witness ==
  /\ SeriesReturned
  /\ req.start < req.end
  /\ Len(caffeineEvents) = 2
  /\ resp.body[1].Timestamp = caffeineEvents[1].Timestamp - 1 * Minute
  /\ resp.body[Len(resp.body)].Timestamp >= req.end

\* C5: for start < end the grid covers the window: its first point is at or
\* before start and its last point is at or after end.
C5_GridCovers ==
  (gridPc = "done" /\ gridStart < gridEnd) =>
    /\ Len(grid) >= 1
    /\ grid[1] <= gridStart
    /\ grid[Len(grid)] >= gridEnd

C5_Witness ==
  /\ gridPc = "done"
  /\ gridStart < gridEnd
  /\ grid[1] < gridStart
  /\ grid[Len(grid)] > gridEnd
  /\ Len(grid) > rangeResolution

\* C9: with no event fetched the request succeeds, every sample has level 0
\* and the samples are the points of the uniform grid.
C9_NoEvents ==
  (resp.path = "/api/levels" /\ req.ok /\ caffeineEvents = << >>) =>
    /\ resp.code = 200
    /\ \A i \in 1..Len(resp.body) : resp.body[i].Level = 0
    /\ [i \in 1..Len(resp.body) |-> resp.body[i].Timestamp]
         = rangeTimes(req.start, req.end)

C9_Witness ==
  /\ SeriesReturned
  /\ caffeineEvents = << >>
  /\ db # EmptyBag
  /\ req.start < req.end
  /\ Len(resp.body) = 4

\* C10: every sample of every returned series has level >= 0, whatever the
\* rows of the table.
C10_NonNegative ==
  SeriesReturned =>
    \A i \in 1..Len(resp.body) : resp.body[i].Level >= 0

\* C11 (as stated): for a fixed event set and times t1 < t2 with no event
\* timestamp in the open interval (t1, t2), the level at t1 is at least the
\* level at t2.
C11_MonotoneOpen ==
  evalPc = "done" =>
    \A t2 \in EvalTimes :
      ( /\ evalT < t2
        /\ \A i \in 1..Len(evalEvents) :
             ~(evalT < evalEvents[i].Timestamp /\ evalEvents[i].Timestamp < t2) )
      => evalLevel >= calculateSumCaffeineLevel(halfLife, t2, evalEvents)

\* C11 (amended): for a fixed set of events with non-negative amounts and
\* times t1 < t2 with no event timestamp in the half-open interval (t1, t2],
\* t2 itself included, the level at t1 is at least the level at t2.
C11_MonotoneHalfOpen ==
  ( /\ evalPc = "done"
    /\ \A i \in 1..Len(evalEvents) : evalEvents[i].Amount >= 0 ) =>
    \A t2 \in EvalTimes :
      ( /\ evalT < t2
        /\ \A i \in 1..Len(evalEvents) :
             ~(evalT < evalEvents[i].Timestamp /\ evalEvents[i].Timestamp <= t2) )
      => evalLevel >= calculateSumCaffeineLevel(halfLife, t2, evalEvents)

\* an event of 160 evaluated at its own timestamp: later times, up to
\* three half-lives on, fall strictly below the level computed
C11_Witness ==
  /\ evalPc = "done"
  /\ evalEvents = << [Timestamp |-> 9 * Hour, Amount |-> 160] >>
  /\ evalT = 9 * Hour
  /\ evalLevel = 160 * LevelScale
  /\ \A t2 \in EvalTimes :
       t2 > evalT => calculateSumCaffeineLevel(halfLife, t2, evalEvents) < evalLevel

\* the number of samples of the series at timestamp t
SamplesAt(series, t) ==
  Cardinality({ i \in 1..Len(series) : series[i].Timestamp = t })

\* the number of grid points of the window at timestamp t
GridPointsAt(start, end, t) ==
  Cardinality({ i \in 1..Len(rangeTimes(start, end)) : rangeTimes(start, end)[i] = t })

\* the number of knots the events put at timestamp t: one at each event's
\* timestamp and one a minute before it
KnotsAt(events, t) ==
  Cardinality({ i \in 1..Len(events) : events[i].Timestamp = t })
    + Cardinality({ i \in 1..Len(events) : events[i].Timestamp - Minute = t })

\* the timestamps at which a sample, a grid point or a knot can sit
SampleTimes(events) ==
  { resp.body[i].Timestamp : i \in 1..Len(resp.body) }
    \cup { rangeTimes(req.start, req.end)[i] :
             i \in 1..Len(rangeTimes(req.start, req.end)) }
    \cup { events[i].Timestamp : i \in 1..Len(events) }
    \cup { events[i].Timestamp - Minute : i \in 1..Len(events) }

\* the stored events, each as often as it is stored
storedEvents == [i \in 1..Len(rowsAscending(db)) |-> ToEvent(rowsAscending(db)[i])]

\* the stored events whose timestamp lies in the closed window [start, end]
eventsInWindow ==
  SelectSeq(storedEvents,
            LAMBDA e : req.start <= e.Timestamp /\ e.Timestamp <= req.end)

\* C12 (as stated): the samples beside the grid are the knots of exactly the
\* stored events with a timestamp in [start, end], two for each; events from
\* outside the window, such as those of the lookback, add no samples.
C12_KnotsOfWindowEvents ==
  (SeriesReturned /\ req.ok /\ ~req.failed) =>
    \A t \in SampleTimes(eventsInWindow) :
      SamplesAt(resp.body, t)
        = GridPointsAt(req.start, req.end, t) + KnotsAt(eventsInWindow, t)

\* C12 (amended): the samples beside the grid are the knots of exactly the
\* events fetched, two for each (at its timestamp and a minute before); the
\* events fetched from a store that answers are those stored with a timestamp,
\* in whole seconds, strictly between the seconds of start - 72h and of end,
\* so events of the lookback get knots and an event at exactly end gets none.
C12_KnotsOfFetchedEvents ==
  (SeriesReturned /\ req.ok) =>
    /\ \A t \in SampleTimes(caffeineEvents) :
         SamplesAt(resp.body, t)
           = GridPointsAt(req.start, req.end, t) + KnotsAt(caffeineEvents, t)
    /\ ~req.failed =>
         \A r \in RowUniverse :
           Cardinality({ i \in 1..Len(caffeineEvents) : caffeineEvents[i] = ToEvent(r) })
             = IF /\ r \in DOMAIN db
                  /\ r.Timestamp > Unix(req.start - 72 * Hour)
                  /\ r.Timestamp < Unix(req.end)
               THEN db[r] ELSE 0

\* an event of the lookback, before start, was fetched and the series holds
\* its two knots, both before the first grid point
C12_Witness ==
  /\ SeriesReturned
  /\ req.ok
  /\ ~req.failed
  /\ \E i \in 1..Len(caffeineEvents) :
       /\ caffeineEvents[i].Timestamp < req.start - Minute
       /\ SamplesAt(resp.body, caffeineEvents[i].Timestamp) >= 1
       /\ SamplesAt(resp.body, caffeineEvents[i].Timestamp - Minute) >= 1
       /\ GridPointsAt(req.start, req.end, caffeineEvents[i].Timestamp) = 0

\* the stored events strictly inside the window
eventsInside ==
  SelectSeq(storedEvents,
            LAMBDA e : req.start < e.Timestamp /\ e.Timestamp < req.end)

\* C13: for every window and every stored event strictly inside it, the
\* series holds, beside every grid point, a sample at exactly the event's
\* timestamp and a sample at exactly one minute before it.
C13_KnotsInside ==
  (SeriesReturned /\ req.ok /\ ~req.failed) =>
    \A i \in 1..Len(eventsInside) :
      /\ SamplesAt(resp.body, eventsInside[i].Timestamp)
           >= GridPointsAt(req.start, req.end, eventsInside[i].Timestamp) + 1
      /\ SamplesAt(resp.body, eventsInside[i].Timestamp - Minute)
           >= GridPointsAt(req.start, req.end, eventsInside[i].Timestamp - Minute) + 1
      /\ \A k \in 1..Len(rangeTimes(req.start, req.end)) :
           SamplesAt(resp.body, rangeTimes(req.start, req.end)[k]) >= 1

\* the resolution rangeTimes selects for the window of the call
gridResolution == snapDownDuration(GoDiv(gridEnd - gridStart, rangeResolution))

\* C14: the first grid point is start truncated down to the selected
\* resolution: a multiple of the resolution counted from the epoch, at or
\* before start, and less than one resolution before it.
C14_FirstPoint ==
  gridPc = "done" =>
    /\ Len(grid) >= 1
    /\ grid[1] % gridResolution = 0
    /\ grid[1] <= gridStart
    /\ gridStart - grid[1] < gridResolution

\* a start off the grid of a resolution above one second
C14_Witness ==
  /\ gridPc = "done"
  /\ gridResolution > Second
  /\ grid[1] < gridStart
  /\ gridStart % Second = 0

\* C15: consecutive grid points differ by exactly the selected resolution,
\* and every grid point except the last is strictly before end.
C15_UniformSteps ==
  gridPc = "done" =>
    /\ \A i \in 1..(Len(grid) - 1) : grid[i + 1] - grid[i] = gridResolution
    /\ \A i \in 1..(Len(grid) - 1) : grid[i] < gridEnd

\* a grid of many steps of a resolution above one second whose last point
\* is end itself
C15_Witness ==
  /\ gridPc = "done"
  /\ gridResolution > Second
  /\ Len(grid) > rangeResolution
  /\ grid[Len(grid)] = gridEnd

\* C16: of a grid consumed to completion exactly one point is at or after
\* end: the last one, which is the first multiple of the resolution at or
\* after end and so less than one resolution after it.
C16_LastPoint ==
  gridPc = "done" =>
    /\ Len(grid) >= 1
    /\ { i \in 1..Len(grid) : grid[i] >= gridEnd } = { Len(grid) }
    /\ grid[Len(grid)] % gridResolution = 0
    /\ grid[Len(grid)] < gridEnd + gridResolution

\* C17: the series is sorted and never deduplicated: it has as many samples
\* as there are grid points plus two for each event that gets knots, and
\* where a grid point and a knot coincide both stay, as adjacent samples of
\* equal timestamp.
C17_NoDedup ==
  (SeriesReturned /\ req.ok) =>
    /\ Len(resp.body)
         = Len(rangeTimes(req.start, req.end)) + 2 * Len(caffeineEvents)
    /\ \A t \in SampleTimes(caffeineEvents) :
         (GridPointsAt(req.start, req.end, t) >= 1 /\ KnotsAt(caffeineEvents, t) >= 1)
         => \E i \in 1..(Len(resp.body) - 1) :
              resp.body[i].Timestamp = t /\ resp.body[i + 1].Timestamp = t

\* a fetched event whose timestamp is a grid point of the window
C17_Witness ==
  /\ SeriesReturned
  /\ req.ok
  /\ req.start < req.end
  /\ \E i \in 1..Len(caffeineEvents) :
       /\ GridPointsAt(req.start, req.end, caffeineEvents[i].Timestamp) = 1
       /\ SamplesAt(resp.body, caffeineEvents[i].Timestamp) >= 2

\* C19: every stored event with a timestamp in [start - 72h, end], both ends
\* included, is fetched, as often as it is stored, and so contributes to the
\* levels of the series; an event at exactly start - 72h or at exactly end is
\* not dropped.
C19_LookbackInclusive ==
  (SeriesReturned /\ req.ok /\ ~req.failed) =>
    \A i \in 1..Len(storedEvents) :
      ( /\ eventStart(req.start) <= storedEvents[i].Timestamp
        /\ storedEvents[i].Timestamp <= req.end )
      => Cardinality({ k \in 1..Len(caffeineEvents) : caffeineEvents[k] = storedEvents[i] })
           = Cardinality({ k \in 1..Len(storedEvents) : storedEvents[k] = storedEvents[i] })

\* the events without the i-th
WithoutEvent(events, i) == SubSeq(events, 1, i - 1) \o SubSeq(events, i + 1, Len(events))

\* C25: in the sample at an event's timestamp the event counts with its full
\* amount, and in the sample one minute before it the same event counts 0;
\* so when no amount is negative the sample at the event's timestamp has a
\* level of at least the event's amount.
C25_KnotsBracketStep ==
  (SeriesReturned /\ req.ok) =>
    \A i \in 1..Len(caffeineEvents) :
      LET e      == caffeineEvents[i]
          others == WithoutEvent(caffeineEvents, i)
      IN  \A j \in 1..Len(resp.body) :
            /\ resp.body[j].Timestamp = e.Timestamp =>
                 /\ resp.body[j].Level
                      = e.Amount * LevelScale
                          + calculateSumCaffeineLevel(halfLife, e.Timestamp, others)
                 /\ (\A k \in 1..Len(caffeineEvents) : caffeineEvents[k].Amount >= 0)
                      => resp.body[j].Level >= e.Amount * LevelScale
            /\ resp.body[j].Timestamp = e.Timestamp - Minute =>
                 resp.body[j].Level
                   = calculateSumCaffeineLevel(halfLife, e.Timestamp - Minute, others)

\* one event of 160 fetched: 160 at its timestamp, 0 a minute before
C25_Witness ==
  /\ SeriesReturned
  /\ req.ok
  /\ Len(caffeineEvents) = 1
  /\ caffeineEvents[1].Amount = 160
  /\ \E j \in 1..Len(resp.body) :
       /\ resp.body[j].Timestamp = caffeineEvents[1].Timestamp
       /\ resp.body[j].Level = 160 * LevelScale
  /\ \E j \in 1..Len(resp.body) :
       /\ resp.body[j].Timestamp = caffeineEvents[1].Timestamp - Minute
       /\ resp.body[j].Level = 0

\* C27: every timestamp of the series, grid point or knot, is a whole number
\* of seconds, so the comparator of the sort, which cuts the difference to
\* whole seconds, calls no two different timestamps equal, and the series is
\* in exact time order.
C27_WholeSeconds ==
  (SeriesReturned /\ req.ok) =>
    /\ \A i \in 1..Len(resp.body) : resp.body[i].Timestamp % Second = 0
    /\ \A i, j \in 1..Len(resp.body) :
         cmpTimestamp(resp.body[i], resp.body[j]) = 0
           => resp.body[i].Timestamp = resp.body[j].Timestamp
    /\ \A i \in 1..(Len(resp.body) - 1) :
         resp.body[i].Timestamp <= resp.body[i + 1].Timestamp

\* a window whose start and end carry half a second, with an event fetched
C27_Witness ==
  /\ SeriesReturned
  /\ req.ok
  /\ req.start % Second # 0
  /\ req.end % Second # 0
  /\ Len(caffeineEvents) >= 1
  /\ Len(resp.body) >= 5

\* C28: two samples of one series with the same timestamp have the same
\* level, so the order in which the sort leaves them does not show in the
\* sequence of (timestamp, level) pairs.
C28_EqualTimesEqualLevels ==
  (SeriesReturned /\ req.ok) =>
    \A i, j \in 1..Len(resp.body) :
      resp.body[i].Timestamp = resp.body[j].Timestamp
        => resp.body[i].Level = resp.body[j].Level

\* two events fetched and a timestamp that three samples or more share, at
\* a level other than 0
C28_Witness ==
  /\ SeriesReturned
  /\ req.ok
  /\ Len(caffeineEvents) = 2
  /\ \E i \in 1..Len(resp.body) :
       /\ resp.body[i].Level # 0
       /\ SamplesAt(resp.body, resp.body[i].Timestamp) >= 3

\* the resolution rangeTimes selects for the window of the request
reqResolution == snapDownDuration(GoDiv(req.end - req.start, rangeResolution))

\* C29: for start < end every sample timestamp t of the series satisfies
\* start - 72h - 1min < t < end + d, with d the resolution selected.
C29_SampleRange ==
  (SeriesReturned /\ req.ok /\ req.start < req.end) =>
    \A i \in 1..Len(resp.body) :
      /\ req.start - 72 * Hour - Minute < resp.body[i].Timestamp
      /\ resp.body[i].Timestamp < req.end + reqResolution

\* a series with a knot of the lookback before start and a grid point
\* after end
C29_Witness ==
  /\ SeriesReturned
  /\ req.ok
  /\ req.start < req.end
  /\ resp.body[1].Timestamp < req.start - 2 * Minute
  /\ resp.body[Len(resp.body)].Timestamp > req.end

\* the length of the window of the call
gridSpan == gridEnd - gridStart

C26_Witness ==
  /\ gridPc = "done"
  /\ gridSpan = 250 * Second
  /\ Len(grid) = 251

\* C30 (as stated): grid generation ends for every pair (start, end): the
\* step is at least 1s, the loop variable strictly increases, a window with
\* end <= start yields exactly one point, start truncated to 1s, and after
\* the consumer stopped no further point is yielded.
C30_EndsWithOnePoint ==
  /\ [](gridPc \in { "loop", "last", "done" } => iterD >= 1 * Second)
  /\ [][(gridPc = "loop" /\ iterT' # iterT) => iterT' > iterT]_vars
  /\ []((gridPc = "done" /\ ~iterStopped /\ gridEnd <= gridStart)
          => grid = << Truncate(gridStart, 1 * Second) >>)
  /\ [][iterStopped => grid' = grid]_vars
  /\ <>(gridPc = "done")

\* C30 (amended): grid generation ends for every pair (start, end): the step
\* is at least 1s, the loop variable strictly increases, and after the
\* consumer stopped no further point is yielded; a window with end <= start
\* yields one point, start truncated to 1s, when that point is not before
\* end, and otherwise (end within the second of start) that point and the
\* one a second later.
C30_EndsInvertedWindow ==
  /\ [](gridPc \in { "loop", "last", "done" } => iterD >= 1 * Second)
  /\ [][(gridPc = "loop" /\ iterT' # iterT) => iterT' > iterT]_vars
  /\ []((gridPc = "done" /\ ~iterStopped /\ gridEnd <= gridStart)
          => grid = IF Truncate(gridStart, 1 * Second) < gridEnd
                    THEN << Truncate(gridStart, 1 * Second),
                            Truncate(gridStart, 1 * Second) + 1 * Second >>
                    ELSE << Truncate(gridStart, 1 * Second) >>)
  /\ [][iterStopped => grid' = grid]_vars
  /\ <>(gridPc = "done")

\* a window with end <= start, consumed to the end, that yielded two points
C30_Witness ==
  /\ gridPc = "done"
  /\ ~iterStopped
  /\ gridEnd <= gridStart
  /\ Len(grid) = 2

\* C21: a call of calculateCaffeineLevels changes neither the events slice
\* it fetched nor the ladder, and two calls, one after the other or
\* interleaved, with the same start, end and events return the same series.
C21_PureDeterministic ==
  /\ [][ladder' = ladder]_vars
  /\ [][\A c \in CallIds :
          calls[c].pc # "ready" => calls'[c].events = calls[c].events]_vars
  /\ [](\A a, b \in CallIds :
          ( /\ calls[a].pc = "done" /\ calls[b].pc = "done"
            /\ calls[a].start = calls[b].start /\ calls[a].end = calls[b].end
            /\ calls[a].events = calls[b].events )
          => calls[a].levels = calls[b].levels)

\* two calls on one window returned, each with the same two events, of
\* which one sits on a grid point, so that the sorts had ties to order
C21_Witness ==
  /\ calls[1].pc = "done" /\ calls[2].pc = "done"
  /\ calls[1].start = calls[2].start /\ calls[1].end = calls[2].end
  /\ calls[1].events = calls[2].events
  /\ Len(calls[1].events) = 2
  /\ calls[1].events[1].Timestamp = calls[1].events[2].Timestamp
  /\ calls[1].events[1].Timestamp > calls[1].start
  /\ calls[1].levels = calls[2].levels

\* ------------------------------------------- webhook and presence service
\* Two revisions of the webhook intake and of the presence service are in
\* the source: WebhookService with PresenceService, whose handlers run in
\* goroutines and whose state a mutex guards, and the legacy webhook with
\* ibbitot, whose handlers run in the listen goroutine and whose state has
\* no lock.  build says which one runs.  A time is a count of hours since
\* the Melbourne midnight that begins a Sunday; the midnight of day n is
\* 24 * n.  Requests are numbered in the order in which they come in.
MaxRequests == 2

MaxDay == 2

rawChanSize == 100

Builds == {"service", "legacy"}

SlackWebhookURLs == {"", "https://hooks.slack.com/services/T"}

RequestIds == 1 .. MaxRequests

\* main.go registers the presence service, then the tracker
transactionHandlers == << "presence", "tracker" >>

Handlers == { transactionHandlers[i] : i \in 1 .. Len(transactionHandlers) }

Refreshers == {"listen", "daily"}

coffee(id, createdAt) ==
  [Id |-> id, CreatedAt |-> createdAt, ValueInBaseUnits |-> -550,
   Foreign |-> FALSE, Category |-> "restaurants-and-cafes",
   Description |-> "Cafe"]

\* two coffees of the Monday, the later one first, and a lunch after them
Transactions ==
  { coffee("t1", 24 + 9),
    coffee("t2", 24 + 8),
    [coffee("t3", 24 + 12) EXCEPT !.ValueInBaseUnits = -1850] }

AmountBetween(transaction, minBaseUnits, maxBaseUnits) ==
  /\ transaction.ValueInBaseUnits >= minBaseUnits
  /\ transaction.ValueInBaseUnits <= maxBaseUnits

Weekday(transaction) ==
  LET day == (transaction.CreatedAt \div 24) % 7
  IN  day >= 1 /\ day <= 5

NotForeign(transaction) == ~transaction.Foreign

Category(transaction, categoryID) == transaction.Category = categoryID

meetsAllCriteria(transaction) ==
  /\ AmountBetween(transaction, -700, -400)
  /\ Weekday(transaction)
  /\ NotForeign(transaction)
  /\ Category(transaction, "restaurants-and-cafes")

\* time.Now() is somewhere in today; midnight is the start of today
isTransactionToday(transaction, day) ==
  /\ transaction.Id # ""
  /\ transaction.CreatedAt > 24 * day

\* legacy: the zero time is after no midnight
isToday(transaction, day) == transaction.CreatedAt > 24 * day

\* the amount, the description and the time of day, as the page shows them
details(transaction) ==
  << -transaction.ValueInBaseUnits, transaction.Description,
     transaction.CreatedAt % 24 >>

getPresenceDescription(isPresent, transaction) ==
  IF ~isPresent \/ transaction.Id = "" THEN << >> ELSE details(transaction)

\* the page is indexHTML with the status and the description filled in
newPage(transaction, day) ==
  LET isPresent == isTransactionToday(transaction, day)
  IN  << IF isPresent THEN "yes" ELSE "no",
         getPresenceDescription(isPresent, transaction) >>

presentString(latestTransaction, day) ==
  IF isToday(latestTransaction, day) THEN "yes" ELSE "no"

getReason(presence, t) ==
  IF presence THEN details(t) ELSE << >>

\* storeTransaction returns early when the cached transaction is newer
keepsCachedNever(cached, transaction) == FALSE

keepsCached(cached, transaction) ==
  /\ cached.CreatedAt # 0
  /\ cached.CreatedAt > transaction.CreatedAt

\* legacy store: the same test without the IsZero guard
legacyKeepsCached(cached, transaction) ==
  cached.CreatedAt > transaction.CreatedAt

\* if changed && s.slackWebhookURL != "" { go s.notifySlack(...) }
notifies(changed, url) == changed /\ url # ""

\* how processEvent fares before its loop over the handlers: the event
\* names no transaction, GetTransaction fails, GetAccount fails, or neither
lookup(transaction, transactionOk, accountOk) ==
  IF transaction = NoTransaction THEN "noTransaction"
  ELSE IF ~transactionOk THEN "transactionFailed"
  ELSE IF ~accountOk THEN "accountFailed"
  ELSE "ok"

\* each of the first three returns before the loop
reachesHandlersPastAccount(l) == l \in {"ok", "accountFailed"}

reachesHandlers(l) == l = "ok"

NewRequest == [pc |-> "new", transaction |-> NoTransaction, lookup |-> ""]

RefreshIdle ==
  [pc |-> "idle", title |-> "", page |-> << >>, old |-> << >>,
   changed |-> FALSE]

\* The state after main has built the services and registered the
\* handlers: the constructor's refreshPage stored the first page, which
\* differs from the empty one, and notified Slack of it; in the service
\* that notification is a goroutine yet to run.
InitEvents ==
  /\ build \in Builds
  /\ slackWebhookURL \in SlackWebhookURLs
  /\ today = 1
  /\ tick = FALSE
  /\ requests = [r \in RequestIds |-> NewRequest]
  /\ rawChan = << >>
  /\ consumer = ConsumerIdle
  /\ goroutines = {}
  /\ delivered = [c \in RequestIds \X Handlers |-> 0]
  /\ cachedTransaction = NoTransaction
  /\ indexPage = newPage(NoTransaction, 1)
  /\ refreshing = [p \in Refreshers |-> RefreshIdle]
  /\ notifying =
       IF build = "service" /\ notifies(TRUE, slackWebhookURL) THEN 1 ELSE 0
  /\ slackPosts =
       IF build = "legacy" /\ slackWebhookURL # "" THEN 1 ELSE 0
  /\ lastRefresh = [changed |-> TRUE, notified |-> slackWebhookURL # ""]
  /\ db = EmptyBag /\ req = NoReq /\ caffeineEvents = << >> /\ resp = NoResp
  /\ CallsIdle
  /\ SnapIdle
  /\ EvalIdle
  /\ GridIdle

otherVars == << db, req, caffeineEvents, resp, callVars, snapVars, evalVars,
                gridVars >>

\* the clock passes midnight; the daily refresher wakes up shortly after
Midnight ==
  /\ today < MaxDay
  /\ today' = today + 1
  /\ tick' = TRUE
  /\ UNCHANGED << build, slackWebhookURL, requests, rawChan, consumer,
                  goroutines, delivered, cachedTransaction, indexPage,
                  refreshing, notifying, slackPosts, lastRefresh, otherVars >>

\* WebhookService.handleWebhook: 500 when the body cannot be read, 401 when
\* the signature is wrong, otherwise the body goes into rawChan
handleWebhook(r, outcome, transaction) ==
  /\ build = "service"
  /\ requests[r].pc = "new"
  /\ \A q \in 1 .. r - 1 : requests[q].pc # "new"
  /\ IF outcome = "readError"
     THEN /\ requests' = [requests EXCEPT ![r].pc = "serverError"]
          /\ UNCHANGED rawChan
     ELSE IF outcome = "invalid"
     THEN /\ requests' = [requests EXCEPT ![r].pc = "unauthorized"]
          /\ UNCHANGED rawChan
     ELSE /\ Len(rawChan) < rawChanSize
          /\ requests' = [requests EXCEPT ![r].pc = "accepted",
                                          ![r].transaction = transaction]
          /\ rawChan' = Append(rawChan, r)
  /\ UNCHANGED << build, slackWebhookURL, today, tick, consumer, goroutines,
                  delivered, cachedTransaction, indexPage, refreshing,
                  notifying, slackPosts, lastRefresh, otherVars >>

\* WebhookService.processEvents and processEvent: take the next body, look
\* the transaction and the account up, start a goroutine per handler
processEvent(transactionOk, accountOk) ==
  /\ build = "service"
  /\ rawChan # << >>
  /\ LET r == Head(rawChan)
         l == lookup(requests[r].transaction, transactionOk, accountOk)
     IN  /\ rawChan' = Tail(rawChan)
         /\ requests' = [requests EXCEPT ![r].lookup = l]
         /\ goroutines' =
              IF reachesHandlers(l)
              THEN goroutines \cup { << r, h >> : h \in Handlers }
              ELSE goroutines
  /\ UNCHANGED << build, slackWebhookURL, today, tick, consumer, delivered,
                  cachedTransaction, indexPage, refreshing, notifying,
                  slackPosts, lastRefresh, otherVars >>

\* PresenceService.refreshPageWithoutLock, run with the mutex held, for the
\* cached transaction the caller leaves behind
refreshPageWithoutLock(cached) ==
  LET page == newPage(cached, today)
      changed == indexPage # page
  IN  /\ indexPage' = page
      /\ notifying' =
           notifying + (IF notifies(changed, slackWebhookURL) THEN 1 ELSE 0)
      /\ lastRefresh' =
           [changed |-> indexPage' # indexPage,
            notified |-> notifies(changed, slackWebhookURL)]

\* the goroutine processEvent started for one handler: HandleEvent.  The
\* presence service filters the transaction and stores it under its mutex.
\* The tracker stores a caffeine event only for the purchases its tables
\* know by description and cost, and no transaction of Transactions is one.
HandleEvent(r, h) ==
  /\ build = "service"
  /\ << r, h >> \in goroutines
  /\ goroutines' = goroutines \ { << r, h >> }
  /\ delivered' = [delivered EXCEPT ![<< r, h >>] = @ + 1]
  /\ LET transaction == requests[r].transaction
     IN  IF /\ h = "presence"
            /\ meetsAllCriteria(transaction)
            /\ ~keepsCached(cachedTransaction, transaction)
         THEN /\ cachedTransaction' = transaction
              /\ refreshPageWithoutLock(transaction)
         ELSE UNCHANGED << cachedTransaction, indexPage, notifying,
                           lastRefresh >>
  /\ UNCHANGED << build, slackWebhookURL, today, tick, requests, rawChan,
                  consumer, refreshing, slackPosts, otherVars >>

\* PresenceService.runDailyRefresher: refreshPage after midnight
runDailyRefresher ==
  /\ build = "service"
  /\ tick
  /\ tick' = FALSE
  /\ refreshPageWithoutLock(cachedTransaction)
  /\ UNCHANGED << build, slackWebhookURL, today, requests, rawChan, consumer,
                  goroutines, delivered, cachedTransaction, refreshing,
                  slackPosts, otherVars >>

\* PresenceService.notifySlack, in its goroutine: the POST
notifySlack ==
  /\ build = "service"
  /\ notifying > 0
  /\ notifying' = notifying - 1
  /\ slackPosts' = slackPosts + 1
  /\ UNCHANGED << build, slackWebhookURL, today, tick, requests, rawChan,
                  consumer, goroutines, delivered, cachedTransaction,
                  indexPage, refreshing, lastRefresh, otherVars >>

\* legacy webhook.webhook: as handleWebhook, but rawChan has no buffer, so
\* the request waits in its send until listen receives
webhook(r, outcome, transaction) ==
  /\ build = "legacy"
  /\ requests[r].pc = "new"
  /\ \A q \in 1 .. r - 1 : requests[q].pc # "new"
  /\ requests' =
       IF outcome = "readError"
       THEN [requests EXCEPT ![r].pc = "serverError"]
       ELSE IF outcome = "invalid"
       THEN [requests EXCEPT ![r].pc = "unauthorized"]
       ELSE [requests EXCEPT ![r].pc = "sending",
                             ![r].transaction = transaction]
  /\ UNCHANGED << build, slackWebhookURL, today, tick, rawChan, consumer,
                  goroutines, delivered, cachedTransaction, indexPage,
                  refreshing, notifying, slackPosts, lastRefresh, otherVars >>

\* legacy webhook.listen and consume up to its loop over the handlers
consume(r, transactionOk, accountOk) ==
  /\ build = "legacy"
  /\ consumer.pc = "idle"
  /\ requests[r].pc = "sending"
  /\ LET l == lookup(requests[r].transaction, transactionOk, accountOk)
     IN  /\ requests' = [requests EXCEPT ![r].pc = "accepted",
                                         ![r].lookup = l]
         /\ consumer' =
              IF reachesHandlers(l) THEN [pc |-> "calling", r |-> r, h |-> 1]
              ELSE ConsumerIdle
  /\ UNCHANGED << build, slackWebhookURL, today, tick, rawChan, goroutines,
                  delivered, cachedTransaction, indexPage, refreshing,
                  notifying, slackPosts, lastRefresh, otherVars >>

\* the consume loop moves to the next handler, or consume returns
nextHandler(c) ==
  IF c.h < Len(transactionHandlers)
  THEN [pc |-> "calling", r |-> c.r, h |-> c.h + 1]
  ELSE ConsumerIdle

\* legacy consume calls the next handler.  ibbitot.HandleEvent is
\* updatePresence and store: the transaction is cached, and refreshPage
\* begins, unless a filter or the cached transaction says no.
legacyHandleEvent ==
  /\ build = "legacy"
  /\ consumer.pc = "calling"
  /\ LET h == transactionHandlers[consumer.h]
         transaction == requests[consumer.r].transaction
     IN  /\ delivered' = [delivered EXCEPT ![<< consumer.r, h >>] = @ + 1]
         /\ IF /\ h = "presence"
               /\ meetsAllCriteria(transaction)
               /\ ~legacyKeepsCached(cachedTransaction, transaction)
            THEN /\ cachedTransaction' = transaction
                 /\ consumer' = [consumer EXCEPT !.pc = "refreshing"]
                 /\ refreshing' = [refreshing EXCEPT !["listen"].pc = "render"]
            ELSE /\ consumer' = nextHandler(consumer)
                 /\ UNCHANGED << cachedTransaction, refreshing >>
  /\ UNCHANGED << build, slackWebhookURL, today, tick, requests, rawChan,
                  goroutines, indexPage, notifying, slackPosts, lastRefresh,
                  otherVars >>

\* legacy dailyPageRefresher: a tick of runDailyTicker begins a refreshPage
dailyPageRefresher ==
  /\ build = "legacy"
  /\ tick
  /\ refreshing["daily"].pc = "idle"
  /\ tick' = FALSE
  /\ refreshing' = [refreshing EXCEPT !["daily"].pc = "render"]
  /\ UNCHANGED << build, slackWebhookURL, today, requests, rawChan, consumer,
                  goroutines, delivered, cachedTransaction, indexPage,
                  notifying, slackPosts, lastRefresh, otherVars >>

\* legacy refreshPage: title := presentString(i.getLatest())
refreshPage(p) ==
  /\ build = "legacy"
  /\ refreshing[p].pc = "render"
  /\ refreshing' =
       [refreshing EXCEPT ![p].pc = "reason",
                          ![p].title = presentString(cachedTransaction, today)]
  /\ UNCHANGED << build, slackWebhookURL, today, tick, requests, rawChan,
                  consumer, goroutines, delivered, cachedTransaction,
                  indexPage, notifying, slackPosts, lastRefresh, otherVars >>

\* legacy refreshPage: desc := getReason(present(latest), latest), which
\* reads the clock again, and the page made of title and desc
refreshPageReason(p) ==
  /\ build = "legacy"
  /\ refreshing[p].pc = "reason"
  /\ refreshing' =
       [refreshing EXCEPT
          ![p].pc = "read",
          ![p].page =
             << refreshing[p].title,
                getReason(isToday(cachedTransaction, today),
                          cachedTransaction) >>]
  /\ UNCHANGED << build, slackWebhookURL, today, tick, requests, rawChan,
                  consumer, goroutines, delivered, cachedTransaction,
                  indexPage, notifying, slackPosts, lastRefresh, otherVars >>

\* legacy replacePage: old := i.indexPage.  Nothing orders this read and
\* the write below against those of the other goroutine.
replacePageRead(p) ==
  /\ build = "legacy"
  /\ refreshing[p].pc = "read"
  /\ refreshing' = [refreshing EXCEPT ![p].pc = "write", ![p].old = indexPage]
  /\ UNCHANGED << build, slackWebhookURL, today, tick, requests, rawChan,
                  consumer, goroutines, delivered, cachedTransaction,
                  indexPage, notifying, slackPosts, lastRefresh, otherVars >>

\* legacy replacePage: i.indexPage = b
replacePageWrite(p) ==
  /\ build = "legacy"
  /\ refreshing[p].pc = "write"
  /\ indexPage' = refreshing[p].page
  /\ refreshing' =
       [refreshing EXCEPT ![p].pc = "fire",
                          ![p].changed = (indexPage # refreshing[p].page)]
  /\ UNCHANGED << build, slackWebhookURL, today, tick, requests, rawChan,
                  consumer, goroutines, delivered, cachedTransaction,
                  notifying, slackPosts, lastRefresh, otherVars >>

\* legacy replacePage returns !bytes.Equal(old, b), and refreshPage calls
\* fireSlack when it is true; the POST to an empty URL fails in the client
fireSlack(p) ==
  /\ build = "legacy"
  /\ refreshing[p].pc = "fire"
  /\ LET replaced == refreshing[p].old # refreshing[p].page
         posted == replaced /\ slackWebhookURL # ""
     IN  /\ slackPosts' = slackPosts + (IF posted THEN 1 ELSE 0)
         /\ lastRefresh' =
              [changed |-> refreshing[p].changed, notified |-> posted]
  /\ refreshing' = [refreshing EXCEPT ![p] = RefreshIdle]
  /\ consumer' = IF p = "listen" THEN nextHandler(consumer) ELSE consumer
  /\ UNCHANGED << build, slackWebhookURL, today, tick, requests, rawChan,
                  goroutines, delivered, cachedTransaction, indexPage,
                  notifying, otherVars >>

WebhookOutcomes == {"readError", "invalid", "valid"}

EventTransactions == Transactions \cup {NoTransaction}

\* the steps from a request to its handlers' return
NextDelivery ==
  \/ \E r \in RequestIds, outcome \in WebhookOutcomes,
        transaction \in EventTransactions :
       handleWebhook(r, outcome, transaction)
  \/ \E transactionOk \in BOOLEAN, accountOk \in BOOLEAN :
       processEvent(transactionOk, accountOk)
  \/ \E r \in RequestIds, h \in Handlers : HandleEvent(r, h)
  \/ notifySlack
  \/ \E r \in RequestIds, outcome \in WebhookOutcomes,
        transaction \in EventTransactions :
       webhook(r, outcome, transaction)
  \/ \E r \in RequestIds, transactionOk \in BOOLEAN, accountOk \in BOOLEAN :
       consume(r, transactionOk, accountOk)
  \/ legacyHandleEvent
  \/ \E p \in Refreshers : refreshPage(p)
  \/ \E p \in Refreshers : refreshPageReason(p)
  \/ \E p \in Refreshers : replacePageRead(p)
  \/ \E p \in Refreshers : replacePageWrite(p)
  \/ \E p \in Refreshers : fireSlack(p)

NextEvents ==
  \/ NextDelivery
  \/ Midnight
  \/ runDailyRefresher
  \/ dailyPageRefresher

SpecEvents == InitEvents /\ [][NextEvents]_vars

\* The requests of one day, with the scheduler's promise that a goroutine
\* that can run is run in the end: the listen goroutine, the handler
\* goroutines, the notifySlack goroutines.
SpecDelivery == InitEvents /\ [][NextDelivery]_vars /\ WF_vars(NextDelivery)

\* C23: a webhook request whose signature is valid and whose transaction
\* and account lookups both succeed leads to exactly one HandleEvent on
\* every registered handler; HandleEvent is invoked at most once per request
\* and handler, and never for a request that was refused or whose lookups
\* did not both succeed.
C23_DeliveredOnce ==
  /\ [](\A r \in RequestIds, h \in Handlers :
          /\ delivered[<< r, h >>] <= 1
          /\ delivered[<< r, h >>] > 0 =>
                requests[r].pc = "accepted" /\ requests[r].lookup = "ok")
  /\ \A r \in RequestIds :
       (requests[r].pc = "accepted" /\ requests[r].lookup = "ok")
         ~> (\A h \in Handlers : delivered[<< r, h >>] = 1)

\* one request reached every handler once; another was accepted, its
\* account lookup failed and it reached none
C23_Witness ==
  \E r \in RequestIds, q \in RequestIds :
    /\ requests[r].lookup = "ok"
    /\ \A h \in Handlers : delivered[<< r, h >>] = 1
    /\ requests[q].pc = "accepted"
    /\ requests[q].lookup = "accountFailed"
    /\ \A h \in Handlers : delivered[<< q, h >>] = 0

\* C24: whatever HandleEvent calls on the presence service run, and however
\* they interleave, the CreatedAt of the cached transaction never goes
\* down, and a step that changes the cached transaction puts in a
\* transaction that passes every filter.
C24_CachedNeverOlder ==
  [][/\ cachedTransaction'.CreatedAt >= cachedTransaction.CreatedAt
     /\ cachedTransaction' # cachedTransaction =>
           meetsAllCriteria(cachedTransaction')]_vars

\* two HandleEvent goroutines of the service ran, the one with the later
\* coffee first: the service notified Slack of its first page and of that
\* coffee and of nothing else, and the later coffee is the cached one
C24_Witness ==
  /\ build = "service"
  /\ slackWebhookURL # ""
  /\ cachedTransaction.Id = "t1"
  /\ notifying + slackPosts = 2
  /\ \E r \in RequestIds, q \in RequestIds :
       /\ requests[r].transaction.Id = "t1"
       /\ requests[q].transaction.Id = "t2"
       /\ delivered[<< r, "presence" >>] = 1
       /\ delivered[<< q, "presence" >>] = 1

\* C22: a refresh of the presence page sends a Slack notification exactly
\* when the page it stores differs from the page stored before it and a
\* Slack webhook URL is configured; a refresh that leaves the stored page
\* as it was sends nothing.
C22_NotifiesOnChange ==
  lastRefresh.notified = (lastRefresh.changed /\ slackWebhookURL # "")

====
